---- MODULE Spec2Model ----
(***************************************************************************)
(* Room-scoped real-time broadcast core of main.py: the ConnectionManager  *)
(* registry (active), its connect / disconnect / broadcast methods and the *)
(* ws_room handler that drives them, one handler task per websocket.       *)
(*                                                                         *)
(* The handlers are asyncio tasks of one event loop: a task runs without   *)
(* interruption from one await to the next, so every action below is the   *)
(* code between two awaits of one handler.                                 *)
(***************************************************************************)
EXTENDS Integers, Sequences, FiniteSets, TLC

\* ------------------------------------------------------------------ bounds

\* Websockets (connections) that are opened altogether.
NumSessions == 3

\* What the peers and the transport do to the handlers altogether: messages
\* that arrive, receive_json() calls that raise and sends that raise.
MaxEvents == 3

Sessions == 1 .. NumSessions

\* HTTP requests to the room endpoints that arrive altogether.
NumRequests == 3

Requests == 1 .. NumRequests

\* The regenerations after which create_room stops looking for a free code.
MaxTries == 5

\* No websocket (the loop variable ws of broadcast outside the loop).
NoWs == 0

\* Codes a client may put in the path /ws/rooms/{code}.
PathCodes == {"a", "A", "B"}

\* The room codes the path codes stand for.
Rooms == {"A", "B"}

\* ------------------------------------------------------------------ helpers

\* A handler that uses the path code as it came.
upper_identity(code) == code

\* The letters of the code are upper-case ones.
isupper(code) == code # "a"

\* The two codes differ in case at most.
SameCode(c1, c2) == c1 = c2 \/ {c1, c2} = {"a", "A"}

\* str.upper() on the path codes of the model.
upper(code) == IF code = "a" THEN "A" ELSE code

Range(seq) == {seq[i] : i \in 1 .. Len(seq)}

\* x in list
In(x, list) == \E i \in 1 .. Len(list) : list[i] = x

\* list.remove(x) for a list that holds x: the first occurrence is removed.
ListRemove(list, x) ==
    LET i == CHOOSE k \in 1 .. Len(list) :
                 list[k] = x /\ \A j \in 1 .. (k - 1) : list[j] # x
    IN  SubSeq(list, 1, i - 1) \o SubSeq(list, i + 1, Len(list))

\* The value None.
None == [code |-> "None"]

\* The room document of the room with code A, created by player 0.
RoomA == [code |-> "A", host_id |-> 0, status |-> "waiting", players |-> <<0>>]

\* An HTTP request that has not arrived.
NoReq == [op |-> "none", pc |-> "idle", code |-> "A", tries |-> 0]

\* ------------------------------------------------------------------ state
VARIABLES
    gameroom,      \* the "gameroom" collection: a sequence of room documents
    req,           \* the HTTP requests: endpoint, position and local variables
    active,        \* ConnectionManager.active: room code -> list of websockets
    pc,            \* position of each websocket's ws_room handler
    exit,          \* how a handler ended ("none" while it runs)
    room,          \* ws_room's local code, after code.upper()
    iter,          \* broadcast's list iterator: the list object and the index
    ws,            \* broadcast's loop variable: the websocket being sent to
    living,        \* broadcast's local list living
    sendFailed,    \* history: some send to this websocket has failed
    joinedDuring,  \* history: connect appended it while a broadcast to its room was in flight
    events,        \* history: the number of messages and failures so far
    bh,            \* history of the broadcast in flight in each handler
    last,          \* history: the broadcast that ended in the step just taken
    rec,           \* which of the histories below the behaviour keeps
    path,          \* history: the code in the path the websocket was opened with
    msg,           \* history: the number of the message the handler received last
    inbox          \* history: per websocket and sender, the numbers of the
                   \* sender's messages it was sent, in the order of the sends

vars == <<gameroom, req, active, pc, exit, room, iter, ws, living,
          sendFailed, joinedDuring, events, bh, last, rec, path, msg, inbox>>

\* The list of a room, [] when the room has no entry.
ListOf(act, r) == IF r \in DOMAIN act THEN act[r] ELSE <<>>

\* An assignment that rebinds every key of the registry, not only room's.
SetEntry_all(act, r, list) == [x \in (DOMAIN act) \cup {r} |-> list]

\* self.active[room] = list
SetEntry(act, r, list) ==
    [x \in (DOMAIN act) \cup {r} |-> IF x = r THEN list ELSE act[x]]

\* del self.active[room]
DelEntry(act, r) == [x \in (DOMAIN act) \ {r} |-> act[x]]

\* get_room_by_code: the first document with the code, or None.
get_room_by_code(code) ==
    LET rooms == SelectSeq(gameroom, LAMBDA d : d.code = code)
    IN  IF Len(rooms) > 0 THEN rooms[1] ELSE None

\* A connect that appends the websocket twice.
connect_twice(act, r, w) == SetEntry(act, r, ListOf(act, r) \o <<w, w>>)

\* ConnectionManager.connect after the accept: setdefault(room, []).append(ws)
connect(act, r, w) == SetEntry(act, r, Append(ListOf(act, r), w))

\* disconnect that leaves the entry in place when its list becomes empty.
disconnect_keeps_entry(act, r, w) ==
    IF r \in DOMAIN act /\ In(w, act[r])
    THEN SetEntry(act, r, ListRemove(act[r], w))
    ELSE act

\* disconnect whose emptiness test is outside the membership test.
disconnect_dedented(act, r, w) ==
    IF r \in DOMAIN act
    THEN LET rest == IF In(w, act[r]) THEN ListRemove(act[r], w) ELSE act[r]
         IN  IF rest = <<>> THEN DelEntry(act, r) ELSE SetEntry(act, r, rest)
    ELSE act

\* ConnectionManager.disconnect
disconnect(act, r, w) ==
    IF r \in DOMAIN act /\ In(w, act[r])
    THEN LET rest == ListRemove(act[r], w)
         IN  IF rest = <<>> THEN DelEntry(act, r) ELSE SetEntry(act, r, rest)
    ELSE act


\* ------------------------------------------------------------------ broadcast

\* What `await ws.send_json(message)` can do: return, or raise an Exception.
SendResults == {"ok", "Exception"}

\* The handlers, other than a, that are inside broadcast(r, ...).
InFlight(r, a) == {b \in Sessions \ {a} : pc[b] = "send" /\ room[b] = r}

NoIter == [attached |-> FALSE, list |-> <<>>, idx |-> 0]

NoBh == [start |-> <<>>, attempts |-> <<>>, stable |-> {}, clean |-> TRUE,
         late |-> FALSE]

\* The registry entry of r stops being the list object that the iterators of
\* the broadcasts in flight (other than a's) walk; that object holds `content`.
Detach(r, a, content) ==
    [b \in Sessions |->
        IF b \in InFlight(r, a) /\ iter[b].attached
        THEN [iter[b] EXCEPT !.attached = FALSE, !.list = content]
        ELSE iter[b]]

\* A broadcast without the early return, iterating self.active.get(room, []).
NoEntry_never(act, r) == FALSE

\* `if room not in self.active: return` (main.py:81)
NoEntry(act, r) == r \notin DOMAIN act

\* An except clause that lets the send's exception through.
BroadcastCatches_nothing(res) == FALSE

\* `except Exception: pass` around the send (main.py:88).
BroadcastCatches(res) == res = "Exception"

\* living.append(ws) placed after the try statement: appended either way.
AfterSend_always(liv, w, res) == Append(liv, w)

\* try: await ws.send_json(message); living.append(ws)   except Exception: pass
AfterSend(liv, w, res) == IF res = "ok" THEN Append(liv, w) ELSE liv

\* History of the other broadcasts in flight after handler a changed the
\* registry to act2 (touched: a connect, disconnect or broadcast to room r).
Track(a, r, act2, touched) ==
    [b \in Sessions |->
        IF pc[b] = "send" /\ b # a
        THEN [bh[b] EXCEPT
                 !.stable = @ \cap Range(ListOf(act2, room[b])),
                 !.clean = @ /\ ~(touched /\ room[b] = r)]
        ELSE bh[b]]

NoLast == [by |-> NoWs, noop |-> NoWs, room |-> "A", start |-> <<>>,
           attempts |-> <<>>, stable |-> {}, clean |-> TRUE, late |-> FALSE]

\* ------------------------------------------------------------------ actions

\* No path, message or delivery is recorded, and none will be.
NoHistory ==
    /\ rec = "none"
    /\ path = [s \in Sessions |-> "A"]
    /\ msg = [s \in Sessions |-> 0]
    /\ inbox = [p \in Sessions |-> [s \in Sessions |-> <<>>]]

Init ==
    /\ gameroom = <<RoomA>>
    /\ req = [q \in Requests |-> NoReq]
    /\ active = [r \in {} |-> <<>>]
    /\ pc = [s \in Sessions |-> "idle"]
    /\ exit = [s \in Sessions |-> "none"]
    /\ room = [s \in Sessions |-> "A"]
    /\ iter = [s \in Sessions |-> NoIter]
    /\ ws = [s \in Sessions |-> NoWs]
    /\ living = [s \in Sessions |-> <<>>]
    /\ sendFailed = [s \in Sessions |-> FALSE]
    /\ joinedDuring = [s \in Sessions |-> FALSE]
    /\ events = 0
    /\ bh = [s \in Sessions |-> NoBh]
    /\ last = NoLast
    /\ NoHistory

\* A state the handlers reach from Init: websockets 1 and 2 registered in room
\* A, 1 received a message, and of its broadcast the send to 1 raised and the
\* send to 2 returned, so the entry was rebound to [2] while 1's handler waits
\* for its next message.
InitEvicted ==
    /\ gameroom = <<RoomA>>
    /\ req = [q \in Requests |-> NoReq]
    /\ active = [r \in {"A"} |-> <<2>>]
    /\ pc = [s \in Sessions |-> IF s \in {1, 2} THEN "recv" ELSE "idle"]
    /\ exit = [s \in Sessions |-> "none"]
    /\ room = [s \in Sessions |-> "A"]
    /\ iter = [s \in Sessions |-> NoIter]
    /\ ws = [s \in Sessions |-> NoWs]
    /\ living = [s \in Sessions |-> <<>>]
    /\ sendFailed = [s \in Sessions |-> s = 1]
    /\ joinedDuring = [s \in Sessions |-> FALSE]
    /\ events = 0
    /\ bh = [s \in Sessions |-> NoBh]
    /\ last = NoLast
    /\ NoHistory

\* A state the handlers reach from Init: websocket 1 was opened with the
\* lower-case code a and is registered, websocket 2 was opened with A and its
\* handshake is pending. The paths are recorded from here on.
InitPaths ==
    /\ gameroom = <<RoomA>>
    /\ req = [q \in Requests |-> NoReq]
    /\ active = [r \in {"A"} |-> <<1>>]
    /\ pc = [s \in Sessions |->
                IF s = 1 THEN "recv" ELSE IF s = 2 THEN "accept" ELSE "idle"]
    /\ exit = [s \in Sessions |-> "none"]
    /\ room = [s \in Sessions |-> "A"]
    /\ iter = [s \in Sessions |-> NoIter]
    /\ ws = [s \in Sessions |-> NoWs]
    /\ living = [s \in Sessions |-> <<>>]
    /\ sendFailed = [s \in Sessions |-> FALSE]
    /\ joinedDuring = [s \in Sessions |-> FALSE]
    /\ events = 0
    /\ bh = [s \in Sessions |-> NoBh]
    /\ last = NoLast
    /\ rec = "paths"
    /\ path = [s \in Sessions |-> IF s = 1 THEN "a" ELSE "A"]
    /\ msg = [s \in Sessions |-> 0]
    /\ inbox = [p \in Sessions |-> [s \in Sessions |-> <<>>]]

\* A state the handlers reach from Init: websocket 1 is registered in room A
\* and no message has arrived yet. The messages and the sends are recorded
\* from here on.
InitMessages ==
    /\ gameroom = <<RoomA>>
    /\ req = [q \in Requests |-> NoReq]
    /\ active = [r \in {"A"} |-> <<1>>]
    /\ pc = [s \in Sessions |-> IF s = 1 THEN "recv" ELSE "idle"]
    /\ exit = [s \in Sessions |-> "none"]
    /\ room = [s \in Sessions |-> "A"]
    /\ iter = [s \in Sessions |-> NoIter]
    /\ ws = [s \in Sessions |-> NoWs]
    /\ living = [s \in Sessions |-> <<>>]
    /\ sendFailed = [s \in Sessions |-> FALSE]
    /\ joinedDuring = [s \in Sessions |-> FALSE]
    /\ events = 0
    /\ bh = [s \in Sessions |-> NoBh]
    /\ last = NoLast
    /\ rec = "messages"
    /\ path = [s \in Sessions |-> "A"]
    /\ msg = [s \in Sessions |-> 0]
    /\ inbox = [p \in Sessions |-> [s \in Sessions |-> <<>>]]

\* ws_room up to the await in connect: code = code.upper(); websocket.accept()
\* Websockets are numbered in the order in which their handlers start, and a
\* handler starts when the handshakes before it have ended: a pending handshake
\* reads and writes nothing shared, so this loses no behaviour of the registry.
Open(s, code) ==
    /\ pc[s] = "idle"
    /\ \A o \in 1 .. (s - 1) : pc[o] \notin {"idle", "accept"}
    /\ pc' = [pc EXCEPT ![s] = "accept"]
    /\ room' = [room EXCEPT ![s] = upper(code)]
    /\ path' = IF rec = "paths" THEN [path EXCEPT ![s] = code] ELSE path
    /\ last' = NoLast
    /\ UNCHANGED <<gameroom, req, active, exit, iter, ws, living, sendFailed,
                   joinedDuring, events, bh, rec, msg, inbox>>

\* A connect that appends before it awaits the accept that then raises.
AcceptFail_appended(s) ==
    /\ pc[s] = "accept"
    /\ active' = SetEntry(active, room[s], Append(ListOf(active, room[s]), s))
    /\ pc' = [pc EXCEPT ![s] = "done"]
    /\ exit' = [exit EXCEPT ![s] = "handshake"]
    /\ last' = NoLast
    /\ UNCHANGED <<gameroom, req, room, iter, ws, living, sendFailed,
                   joinedDuring, events, bh, rec, path, msg, inbox>>

\* accept() raises: connect never appends, and ws_room ends outside its try.
AcceptFail(s) ==
    /\ pc[s] = "accept"
    /\ pc' = [pc EXCEPT ![s] = "done"]
    /\ exit' = [exit EXCEPT ![s] = "handshake"]
    /\ last' = NoLast
    /\ UNCHANGED <<gameroom, req, active, room, iter, ws, living, sendFailed,
                   joinedDuring, events, bh, rec, path, msg, inbox>>

\* accept() returns: connect appends, ws_room awaits receive_json().
AcceptOk(s) ==
    /\ pc[s] = "accept"
    /\ active' = connect(active, room[s], s)
    /\ pc' = [pc EXCEPT ![s] = "recv"]
    /\ joinedDuring' = [joinedDuring EXCEPT ![s] = InFlight(room[s], s) # {}]
    /\ bh' = Track(s, room[s], active', TRUE)
    /\ last' = NoLast
    /\ UNCHANGED <<gameroom, req, exit, room, iter, ws, living, sendFailed,
                   events, rec, path, msg, inbox>>

\* receive_json() raises (WebSocketDisconnect or any other Exception):
\* manager.disconnect(code, websocket), and ws_room returns.
ReceiveFail(s) ==
    /\ pc[s] = "recv"
    /\ events < MaxEvents
    /\ events' = events + 1
    /\ active' = disconnect(active, room[s], s)
    /\ iter' = IF room[s] \in DOMAIN active /\ room[s] \notin DOMAIN active'
               THEN Detach(room[s], s, <<>>)
               ELSE iter
    /\ pc' = [pc EXCEPT ![s] = "done"]
    /\ exit' = [exit EXCEPT ![s] = "receive"]
    /\ bh' = Track(s, room[s], active', TRUE)
    /\ last' = NoLast
    /\ UNCHANGED <<gameroom, req, room, ws, living, sendFailed, joinedDuring,
                   rec, path, msg, inbox>>

\* A transport that hands over the peer's first two messages in swapped order.
Received_swapped(k) ==
    IF k = 0 THEN 2 ELSE IF k = 2 THEN 1 ELSE IF k = 1 THEN 3 ELSE k + 1

\* `data = await websocket.receive_json()` after message number k: the peer's
\* messages arrive in the order sent, so this is message number k + 1.
Received(k) == k + 1

\* The for loop of handler s's broadcast asks its iterator it for the next
\* websocket, liv being living and h the history so far: either the next send
\* starts, or the loop ends and self.active[room] = living.
NextOrFinish(s, it, liv, h) ==
    LET r == room[s]
        list == IF it.attached THEN ListOf(active, r) ELSE it.list
    IN
    IF it.idx < Len(list)
    THEN /\ ws' = [ws EXCEPT ![s] = list[it.idx + 1]]
         /\ inbox' = IF rec = "messages"
                      THEN [inbox EXCEPT
                               ![list[it.idx + 1]][s] = Append(@, msg'[s])]
                      ELSE inbox
         /\ iter' = [iter EXCEPT ![s] = [it EXCEPT !.idx = it.idx + 1]]
         /\ living' = [living EXCEPT ![s] = liv]
         /\ pc' = [pc EXCEPT ![s] = "send"]
         /\ bh' = [Track(s, r, active, TRUE) EXCEPT ![s] = h]
         /\ last' = NoLast
         /\ UNCHANGED active
    ELSE /\ active' = SetEntry(active, r, liv)
         /\ UNCHANGED inbox
         /\ iter' = [Detach(r, s, ListOf(active, r)) EXCEPT ![s] = NoIter]
         /\ ws' = [ws EXCEPT ![s] = NoWs]
         /\ living' = [living EXCEPT ![s] = <<>>]
         /\ pc' = [pc EXCEPT ![s] = "recv"]
         /\ bh' = [Track(s, r, active', TRUE) EXCEPT ![s] = NoBh]
         /\ last' = [by |-> s, noop |-> NoWs, room |-> r, start |-> h.start,
                     attempts |-> h.attempts, stable |-> h.stable,
                     clean |-> h.clean, late |-> h.late]

\* receive_json() returns a message: manager.broadcast(code, data) runs up to
\* its first await (or to its end when there is nothing to send to).
Receive(s) ==
    /\ pc[s] = "recv"
    /\ events < MaxEvents
    /\ events' = events + 1
    /\ msg' = IF rec = "messages" THEN [msg EXCEPT ![s] = Received(@)] ELSE msg
    /\ IF NoEntry(active, room[s])
       THEN /\ last' = [NoLast EXCEPT !.noop = s, !.room = room[s]]
            /\ UNCHANGED <<active, pc, iter, ws, living, bh, inbox>>
       ELSE LET list == ListOf(active, room[s])
                h == [start |-> list, attempts |-> <<>>, stable |-> Range(list),
                      clean |-> InFlight(room[s], s) = {},
                      late |-> sendFailed[s] /\ ~In(s, list)]
            IN  NextOrFinish(s, [attached |-> TRUE, list |-> <<>>, idx |-> 0],
                             <<>>, h)
    /\ UNCHANGED <<gameroom, req, exit, room, sendFailed, joinedDuring, rec, path>>

\* The send to ws that handler s's broadcast awaits ends with res; the loop
\* goes on to the next await or to the end of broadcast. An exception that
\* broadcast does not catch reaches ws_room's `except Exception`, which calls
\* manager.disconnect(code, websocket) and returns.
SendDone(s, res) ==
    /\ pc[s] = "send"
    /\ res # "ok" => events < MaxEvents
    /\ events' = IF res # "ok" THEN events + 1 ELSE events
    /\ sendFailed' = [sendFailed EXCEPT ![ws[s]] = @ \/ res # "ok"]
    /\ UNCHANGED msg
    /\ IF res = "ok" \/ BroadcastCatches(res)
       THEN /\ NextOrFinish(s, iter[s], AfterSend(living[s], ws[s], res),
                            [bh[s] EXCEPT
                                !.attempts = Append(@, <<ws[s], res = "ok">>)])
            /\ UNCHANGED exit
       ELSE /\ active' = disconnect(active, room[s], s)
            /\ iter' = [(IF room[s] \in DOMAIN active
                            /\ room[s] \notin DOMAIN active'
                         THEN Detach(room[s], s, <<>>)
                         ELSE iter) EXCEPT ![s] = NoIter]
            /\ ws' = [ws EXCEPT ![s] = NoWs]
            /\ living' = [living EXCEPT ![s] = <<>>]
            /\ pc' = [pc EXCEPT ![s] = "done"]
            /\ exit' = [exit EXCEPT ![s] = "send"]
            /\ bh' = [Track(s, room[s], active', TRUE) EXCEPT ![s] = NoBh]
            /\ last' = NoLast
            /\ UNCHANGED inbox
    /\ UNCHANGED <<gameroom, req, room, joinedDuring, rec, path>>

\* The handler task is cancelled (connection or server shutdown) at the await
\* it is suspended in: asyncio.CancelledError is a BaseException, which
\* neither broadcast's `except Exception` nor ws_room's two except clauses
\* catch, so the task ends without manager.disconnect and, inside broadcast,
\* without the rebinding of the entry.
Cancel(s) ==
    /\ pc[s] \in {"accept", "recv", "send"}
    /\ pc' = [pc EXCEPT ![s] = "done"]
    /\ exit' = [exit EXCEPT ![s] = "cancelled"]
    /\ iter' = [iter EXCEPT ![s] = NoIter]
    /\ ws' = [ws EXCEPT ![s] = NoWs]
    /\ living' = [living EXCEPT ![s] = <<>>]
    /\ bh' = [bh EXCEPT ![s] = NoBh]
    /\ last' = NoLast
    /\ UNCHANGED <<gameroom, req, active, room, sendFailed, joinedDuring, events,
                   rec, path, msg, inbox>>

Next ==
    \/ \E s \in Sessions, code \in PathCodes : Open(s, code)
    \/ \E s \in Sessions : AcceptFail(s)
    \/ \E s \in Sessions : AcceptOk(s)
    \/ \E s \in Sessions : Receive(s)
    \/ \E s \in Sessions, res \in SendResults : SendDone(s, res)
    \/ \E s \in Sessions : ReceiveFail(s)

Spec == Init /\ [][Next]_vars

\* Only register and unregister calls: no handler ever receives a message.
NextRegistry ==
    \/ \E s \in Sessions, code \in PathCodes : Open(s, code)
    \/ \E s \in Sessions : AcceptFail(s)
    \/ \E s \in Sessions : AcceptOk(s)
    \/ \E s \in Sessions : ReceiveFail(s)

SpecRegistry == Init /\ [][NextRegistry]_vars

\* The handlers, any of which may be cancelled.
NextShutdown ==
    \/ Next
    \/ \E s \in Sessions : Cancel(s)

SpecShutdown == Init /\ [][NextShutdown]_vars

\* The handlers, with the path codes recorded.
SpecPaths == InitPaths /\ [][Next]_vars

\* The handlers, with the messages and the sends recorded.
SpecMessages == InitMessages /\ [][Next]_vars

\* The handlers from the state in which websocket 1 has been evicted.
SpecEvicted == InitEvicted /\ [][Next]_vars

\* ------------------------------------------------------------------ rooms
\* The room endpoints are `def` functions, which FastAPI runs on threads of a
\* pool: requests interleave between any two calls of the database, and each
\* call of the database is one step.

wsvars == <<active, pc, exit, room, iter, ws, living, sendFailed,
            joinedDuring, events, bh, last, rec, path, msg, inbox>>

\* The codes gen_code() may return.
Codes == Rooms

\* The index of the document that update_one({"code": code}, ...) updates:
\* the first one with the code.
FirstWith(coll, code) ==
    CHOOSE i \in 1 .. Len(coll) :
        coll[i].code = code /\ \A j \in 1 .. (i - 1) : coll[j].code # code

\* {"$addToSet": {"players": player_id}}
addToSet(list, x) == IF In(x, list) THEN list ELSE Append(list, x)

\* create_room up to the loop: the player is created (its id is the
\* request's), tries = 0, code = gen_code().
CreateStart(q, c) ==
    /\ req[q].pc = "idle"
    /\ req' = [req EXCEPT ![q] = [op |-> "create_room", pc |-> "check",
                                  code |-> c, tries |-> 0]]
    /\ UNCHANGED <<gameroom, wsvars>>

\* One test of `while get_room_by_code(code) is not None and tries < 5`, and
\* the body when the test holds: code = gen_code(); tries += 1.
CreateCheck(q, c) ==
    /\ req[q].pc = "check"
    /\ IF get_room_by_code(req[q].code) # None /\ req[q].tries < MaxTries
       THEN req' = [req EXCEPT ![q].code = c, ![q].tries = @ + 1]
       ELSE req' = [req EXCEPT ![q].pc = "insert"]
    /\ UNCHANGED <<gameroom, wsvars>>

\* create_document(ROOMS_COLLECTION, room_doc)
CreateInsert(q) ==
    /\ req[q].pc = "insert"
    /\ gameroom' = Append(gameroom, [code |-> req[q].code, host_id |-> q,
                                      status |-> "waiting", players |-> <<q>>])
    /\ req' = [req EXCEPT ![q].pc = "done"]
    /\ UNCHANGED wsvars

\* join_room up to the update: the room is read, 404 when there is none, 400
\* when its status is active, else the player is created.
JoinRead(q, c) ==
    /\ req[q].pc = "idle"
    /\ LET r == get_room_by_code(upper(c))
       IN  req' = [req EXCEPT ![q] =
                      [op |-> "join_room",
                       pc |-> IF r = None THEN "404"
                              ELSE IF r.status = "active" THEN "400"
                              ELSE "update",
                       code |-> upper(c), tries |-> 0]]
    /\ UNCHANGED <<gameroom, wsvars>>

\* join_room: update_one({"code": room["code"]}, {"$addToSet": {"players": ..}})
JoinUpdate(q) ==
    /\ req[q].op = "join_room" /\ req[q].pc = "update"
    /\ gameroom' = [gameroom EXCEPT
                       ![FirstWith(gameroom, req[q].code)].players =
                           addToSet(@, q)]
    /\ req' = [req EXCEPT ![q].pc = "done"]
    /\ UNCHANGED wsvars

\* start_game up to the update: the room is read, 404 when there is none.
StartRead(q, c) ==
    /\ req[q].pc = "idle"
    /\ req' = [req EXCEPT ![q] =
                   [op |-> "start_game",
                    pc |-> IF get_room_by_code(upper(c)) = None
                           THEN "404" ELSE "update",
                    code |-> upper(c), tries |-> 0]]
    /\ UNCHANGED <<gameroom, wsvars>>

\* start_game: update_one({"code": room["code"]}, {"$set": {"status": "active"}})
StartUpdate(q) ==
    /\ req[q].op = "start_game" /\ req[q].pc = "update"
    /\ gameroom' = [gameroom EXCEPT
                       ![FirstWith(gameroom, req[q].code)].status = "active"]
    /\ req' = [req EXCEPT ![q].pc = "done"]
    /\ UNCHANGED wsvars

NextRooms ==
    \/ \E q \in Requests, c \in Codes : CreateStart(q, c)
    \/ \E q \in Requests, c \in Codes : CreateCheck(q, c)
    \/ \E q \in Requests : CreateInsert(q)
    \/ \E q \in Requests, c \in PathCodes : JoinRead(q, c)
    \/ \E q \in Requests : JoinUpdate(q)
    \/ \E q \in Requests, c \in PathCodes : StartRead(q, c)
    \/ \E q \in Requests : StartUpdate(q)

\* The room endpoints, no websocket being opened.
SpecRooms == Init /\ [][NextRooms]_vars

TypeOK ==
    /\ \A r \in DOMAIN active : r \in Rooms /\ Range(active[r]) \subseteq Sessions
    /\ \A s \in Sessions : iter[s].attached => room[s] \in DOMAIN active
    /\ \A s \in Sessions : pc[s] = "send" <=> ws[s] # NoWs

\* ------------------------------------------------------------------ claims

\* The websockets a finished or running broadcast tried to send to, those
\* whose send returned and those whose send raised (att: its attempts).
Attempted(att) == {att[i][1] : i \in 1 .. Len(att)}
Succeeded(att) == {att[i][1] : i \in {j \in 1 .. Len(att) : att[j][2]}}
Failed(att) == {att[i][1] : i \in {j \in 1 .. Len(att) : ~att[j][2]}}

\* The handlers inside a broadcast to room r.
Broadcasting(r) == {b \in Sessions : pc[b] = "send" /\ room[b] = r}

\* A broadcast has ended in the step just taken.
Ended == last.by # NoWs

\* C1: a session whose connect completed while a broadcast to its room was in
\* flight, that has not disconnected and to which no send has failed, is in the
\* room's list whenever no broadcast to the room is in flight.
C1_JoinerKept ==
    \A s \in Sessions :
        ( /\ joinedDuring[s]
          /\ pc[s] = "recv"
          /\ ~sendFailed[s]
          /\ Broadcasting(room[s]) = {} )
        => In(s, ListOf(active, room[s]))

\* C2: a session that disconnect has unregistered (its handler returned after
\* receive_json raised) is in no room's list.
C2_NoResurrection ==
    \A s \in Sessions :
        exit[s] = "receive" => \A r \in DOMAIN active : ~In(s, active[r])

\* C3: when a broadcast ends, every session that was in the room's list from
\* its start to its end has been sent to, and is in the room's list now if its
\* send returned.
C3_StablePeerServed ==
    Ended =>
        \A p \in last.stable :
            /\ p \in Attempted(last.attempts)
            /\ p \in Succeeded(last.attempts)
                   => In(p, ListOf(active, last.room))

\* C4: when a broadcast ends that no connect, disconnect or other broadcast to
\* the room has interleaved, each of the N sessions that were in the room's
\* list at its start has been sent to exactly once, and the room's list holds
\* exactly (once each) the N-K sessions whose send returned.
C4_CleanBroadcast ==
    (Ended /\ last.clean) =>
        /\ [i \in 1 .. Len(last.attempts) |-> last.attempts[i][1]] = last.start
        /\ last.room \in DOMAIN active
        /\ Range(active[last.room]) = Succeeded(last.attempts)
        /\ Range(active[last.room]) \cap Failed(last.attempts) = {}
        /\ Len(active[last.room])
               = Len(last.start) - Cardinality(Failed(last.attempts))

\* C4 witness: an uninterleaved broadcast to three sessions, one of which failed.
C4_Witness ==
    /\ Ended /\ last.clean
    /\ Len(last.start) = 3
    /\ Cardinality(Failed(last.attempts)) = 1
    /\ Len(active[last.room]) = 2

\* C5: every room that is a key of the registry maps to a non-empty list.
C5_NoEmptyEntry == \A r \in DOMAIN active : active[r] # <<>>

\* C6: with connect and disconnect calls only, every room that is a key maps
\* to a non-empty list, and the list of a room (empty when the room is no key)
\* holds exactly the sessions connected to it and not yet disconnected.
C6_RegistryEntriesLive ==
    \A r \in Rooms :
        /\ r \in DOMAIN active => Len(active[r]) > 0
        /\ Range(ListOf(active, r))
               = {s \in Sessions : pc[s] = "recv" /\ room[s] = r}

\* C6 witness: the last session of a room has disconnected and the room is no
\* key, while another room still has an entry.
C6_Witness ==
    \E s \in Sessions :
        /\ exit[s] = "receive"
        /\ room[s] \notin DOMAIN active
        /\ DOMAIN active # {}

\* C7: for every room and session, a second disconnect leaves the registry as
\* the first left it, and a disconnect of a session that is not in the room's
\* list (or of a room that is no key) leaves the registry as it is.
C7_DisconnectIdempotent ==
    \A r \in Rooms, s \in Sessions :
        LET once == disconnect(active, r, s) IN
        /\ disconnect(once, r, s) = once
        /\ ~In(s, ListOf(active, r)) => once = active

\* C7 witness: a handler has called disconnect, and its room still has an
\* entry, without it.
C7_Witness ==
    \E s \in Sessions :
        /\ exit[s] = "receive"
        /\ room[s] \in DOMAIN active
        /\ ~In(s, active[room[s]])

\* C8: a handler that receives a message after a send to its websocket has
\* failed and it is out of its room's list delivers that message to nobody.
C8_EvictedIsSilent ==
    /\ \A s \in Sessions : bh[s].late => Succeeded(bh[s].attempts) = {}
    /\ last.late => Succeeded(last.attempts) = {}

\* C9: every session in the registry is under a room code for which
\* get_room_by_code finds a room document.
C9_OnlyExistingRooms ==
    \A r \in DOMAIN active : Len(active[r]) > 0 => get_room_by_code(r) # None

\* C10: no handler ever ends because a send raised inside broadcast; when a
\* broadcast in which the send to another peer failed ends, its caller awaits
\* the next message, and is in the room's list if the send to itself returned.
C10_SendFailureContained ==
    /\ \A s \in Sessions : exit[s] # "send"
    /\ (Ended /\ Failed(last.attempts) \ {last.by} # {}) =>
           /\ pc[last.by] = "recv"
           /\ last.by \in Succeeded(last.attempts)
                  => In(last.by, ListOf(active, last.room))

\* C10 witness: a broadcast ended in which the send to another peer failed
\* and the send to the caller returned.
C10_Witness ==
    /\ Ended
    /\ Failed(last.attempts) \ {last.by} # {}
    /\ last.by \in Succeeded(last.attempts)
    /\ pc[last.by] = "recv"
    /\ In(last.by, ListOf(active, last.room))

\* The step is handler b's call of broadcast, up to the first await or, when
\* there is none, to the end of the call.
BroadcastCall(b) ==
    pc[b] = "recv" /\ (pc'[b] = "send" \/ last'.by = b \/ last'.noop = b)

\* The step is one of handler b's broadcast: it starts, goes on to the next
\* send, or ends.
BroadcastStep(b) ==
    \/ pc[b] = "send" /\ (pc'[b] # "send" \/ iter'[b].idx # iter[b].idx)
    \/ BroadcastCall(b)

\* No element occurs twice in the list.
NoDuplicate(list) ==
    \A i, j \in 1 .. Len(list) : list[i] = list[j] => i = j

\* The websockets of a sequence of attempts, in order.
Targets(att) == [i \in 1 .. Len(att) |-> att[i][1]]

\* C11: every send of a broadcast to a room goes to a websocket whose handler
\* was opened for that room, and no step of a broadcast to a room adds,
\* removes or changes the registry entry of another room.
C11_RoomIsolation ==
    /\ [](\A b \in Sessions :
            /\ pc[b] = "send" => room[ws[b]] = room[b]
            /\ \A p \in Attempted(bh[b].attempts) : room[p] = room[b])
    /\ [][\A b \in Sessions :
            BroadcastStep(b) =>
                \A r \in Rooms \ {room[b]} :
                    /\ r \in DOMAIN active' <=> r \in DOMAIN active
                    /\ ListOf(active', r) = ListOf(active, r)]_vars

\* C11 witness: a broadcast to room A that sent to somebody has ended while
\* room B has its own session.
C11_Witness ==
    /\ Ended /\ last.room = "A" /\ Succeeded(last.attempts) # {}
    /\ "B" \in DOMAIN active /\ Len(active["B"]) = 1

\* C14: a websocket whose handshake is pending or has failed is in no room's
\* list and has never been sent to, and the step in which a handshake fails
\* leaves the registry as it is.
C14_NoStateBeforeAccept ==
    /\ [](\A s \in Sessions :
            (pc[s] \in {"idle", "accept"} \/ exit[s] = "handshake") =>
                /\ \A r \in DOMAIN active : ~In(s, active[r])
                /\ \A b \in Sessions :
                       ws[b] # s /\ s \notin Attempted(bh[b].attempts))
    /\ [][\A s \in Sessions :
            (pc[s] = "accept" /\ exit'[s] = "handshake") => active' = active]_vars

\* C14 witness: a handshake has failed for a room that has no entry, while
\* another room has one.
C14_Witness ==
    \E s \in Sessions :
        /\ exit[s] = "handshake"
        /\ room[s] \notin DOMAIN active
        /\ DOMAIN active # {}

\* C18: a websocket is in the list of at most one room, at most once, and no
\* broadcast sends to the same websocket twice.
C18_AtMostOnce ==
    /\ \A s \in Sessions :
           Cardinality({r \in DOMAIN active : In(s, active[r])}) <= 1
    /\ \A r \in DOMAIN active : NoDuplicate(active[r])
    /\ \A b \in Sessions : NoDuplicate(Targets(bh[b].attempts))
    /\ NoDuplicate(Targets(last.attempts))

\* C18 witness: both rooms have an entry and a broadcast that sent to two
\* websockets has ended.
C18_Witness ==
    /\ Ended /\ Len(last.attempts) = 2
    /\ Cardinality(DOMAIN active) = 2

\* C12: a broadcast to a room that has no entry returns at once: it starts
\* no send, raises nothing into its handler (which goes on to receive), and
\* leaves the registry as it is, without an entry for the room.
C12_NoEntryNoOp ==
    [][\A b \in Sessions :
         (BroadcastCall(b) /\ room[b] \notin DOMAIN active) =>
             /\ last'.noop = b /\ last'.by = NoWs
             /\ active' = active
             /\ ws' = ws /\ pc' = pc /\ exit' = exit]_vars

\* C12 witness: a handler has broadcast to its room while the room had no
\* entry and other rooms did.
C12_Witness ==
    /\ last.noop # NoWs
    /\ last.room \notin DOMAIN active
    /\ DOMAIN active # {}

\* C13: the step in which a registered websocket's handler ends, whatever
\* ends it (a receive that raises, a send whose exception reaches ws_room, or
\* the cancellation of the task), leaves the websocket out of its room's list.
C13_UnregisteredAtEnd ==
    [][\A s \in Sessions :
         (pc[s] \in {"recv", "send"} /\ pc'[s] = "done") =>
             ~In(s, ListOf(active', room[s]))]_vars

\* C15: every key of the registry is an upper-case code; the code a handler
\* uses is the upper-case form of its path code, so two websockets whose path
\* codes differ in case at most use the same code; and a websocket is
\* registered, and sent to by a broadcast, only under its handler's code.
C15_CanonicalKeys ==
    /\ \A r \in DOMAIN active : isupper(r)
    /\ \A s \in Sessions :
           pc[s] # "idle" => isupper(room[s]) /\ SameCode(room[s], path[s])
    /\ \A s, t \in Sessions :
           (pc[s] # "idle" /\ pc[t] # "idle" /\ SameCode(path[s], path[t])) =>
               room[s] = room[t]
    /\ \A r \in DOMAIN active : \A s \in Range(active[r]) : r = room[s]
    /\ \A b \in Sessions : pc[b] = "send" => room[ws[b]] = room[b]

\* C15 witness: a websocket opened with a and one opened with A are in the
\* list of A, and a broadcast of the first has just sent to the second.
C15_Witness ==
    \E s, t \in Sessions :
        /\ path[s] = "a" /\ path[t] = "A"
        /\ "A" \in DOMAIN active /\ In(s, active["A"]) /\ In(t, active["A"])
        /\ last.by = s /\ t \in Succeeded(last.attempts)

\* C16: a broadcast whose sender was in its room's list when it submitted the
\* message, and to which no send has ever failed, sends the message to the
\* sender too; and whatever a websocket is sent is a message that a handler
\* with the same room code has received.
C16_EchoVerbatim ==
    /\ (Ended /\ In(last.by, last.start) /\ ~sendFailed[last.by]) =>
           last.by \in Succeeded(last.attempts)
    /\ \A p, s \in Sessions :
           inbox[p][s] # <<>> =>
               /\ Range(inbox[p][s]) \subseteq 1 .. msg[s]
               /\ room[s] = room[p]

\* C17: the messages of one sender that a websocket is sent are sent in the
\* order in which the sender's handler received them: their numbers increase
\* along the sends.
C17_SenderOrder ==
    \A p, s \in Sessions :
        \A i, j \in 1 .. Len(inbox[p][s]) :
            i < j => inbox[p][s][i] < inbox[p][s][j]

\* C17 witness: a websocket has been sent the first and then the second
\* message of another websocket's handler.
C17_Witness ==
    \E p, s \in Sessions : p # s /\ inbox[p][s] = <<1, 2>>

\* C19: the player list of a room whose status is active does not change.
C19_NoJoinAfterStart ==
    [][\A i \in 1 .. Len(gameroom) :
         gameroom[i].status = "active" =>
             gameroom'[i].players = gameroom[i].players]_vars

\* C20: no two stored rooms have the same code, and create_room regenerates
\* its code at most MaxTries times.
C20_UniqueCodes ==
    /\ \A i, j \in 1 .. Len(gameroom) :
           gameroom[i].code = gameroom[j].code => i = j
    /\ \A q \in Requests : req[q].tries <= MaxTries
====
